---- MODULE Spec2Model ----
(***************************************************************************)
(* Model of the two scripts of sim_and_scat:                               *)
(*   notebooks_plain/plot_style.py  sixteen assignments into the plotting  *)
(*                                  library's global rcParams mapping      *)
(*   setup.py                       reads README.md and calls setup()      *)
(* Python values are written as the text of their literals ("16", "'w'",   *)
(* "(0.8, 0.8, 0.8)"); strings the model has to look inside (package       *)
(* names, the README) are sequences of one-character strings.              *)
(***************************************************************************)
EXTENDS Integers, Sequences, FiniteSets, TLC

VARIABLES rcParams, pc, before, assigned, laterWrites, seen, seenAt,
          order, pass, afterFirst,
          readmeExists, readme, spc, err, long_description, declared

styleVars == <<rcParams, pc, before, assigned, laterWrites, seen, seenAt>>
orderVars == <<order, pass, afterFirst>>
setupVars == <<readmeExists, readme, spc, err, long_description, declared>>
vars == <<styleVars, orderVars, setupVars>>

(***************************** bounds ***************************************)
\* keys of the initial configuration that differ from the base configuration
MaxPreset == 2
\* the same, for the runs that execute the table in another order
MaxOrderPreset == 1
\* writes to rcParams by other code after the import
MaxForeignWrites == 1
\* length of README.md in characters
MaxLen == 3

(************************ plot_style.py *************************************)
\* the statements of lines 3-18 in source order, <<key, literal>>
AssignmentsWrongWidth ==
  << <<"xtick.labelsize", "16">>, <<"ytick.labelsize", "16">>,
     <<"axes.facecolor", "'w'">>, <<"lines.linewidth", "2">>,
     <<"axes.grid", "True">>, <<"grid.color", "(0.8, 0.8, 0.8)">>,
     <<"xtick.top", "False">>, <<"xtick.bottom", "True">>,
     <<"ytick.left", "True">>, <<"grid.linestyle", "'--'">>,
     <<"legend.fontsize", "12">>, <<"legend.facecolor", "[1,1,1]">>,
     <<"legend.framealpha", "0.75">>, <<"axes.labelsize", "16">>,
     <<"axes.linewidth", "1">>, <<"axes.edgecolor", "'k'">> >>

\* ytick.right written where the source writes ytick.left
AssignmentsWrongSide ==
  << <<"xtick.labelsize", "16">>, <<"ytick.labelsize", "16">>,
     <<"axes.facecolor", "'w'">>, <<"lines.linewidth", "4">>,
     <<"axes.grid", "True">>, <<"grid.color", "(0.8, 0.8, 0.8)">>,
     <<"xtick.top", "False">>, <<"xtick.bottom", "True">>,
     <<"ytick.right", "True">>, <<"grid.linestyle", "'--'">>,
     <<"legend.fontsize", "12">>, <<"legend.facecolor", "[1,1,1]">>,
     <<"legend.framealpha", "0.75">>, <<"axes.labelsize", "16">>,
     <<"axes.linewidth", "1">>, <<"axes.edgecolor", "'k'">> >>

\* axes.labelsize written a second time, with another value, on line 17
AssignmentsRepeatedKey ==
  << <<"xtick.labelsize", "16">>, <<"ytick.labelsize", "16">>,
     <<"axes.facecolor", "'w'">>, <<"lines.linewidth", "4">>,
     <<"axes.grid", "True">>, <<"grid.color", "(0.8, 0.8, 0.8)">>,
     <<"xtick.top", "False">>, <<"xtick.bottom", "True">>,
     <<"ytick.left", "True">>, <<"grid.linestyle", "'--'">>,
     <<"legend.fontsize", "12">>, <<"legend.facecolor", "[1,1,1]">>,
     <<"legend.framealpha", "0.75">>, <<"axes.labelsize", "16">>,
     <<"axes.labelsize", "1">>, <<"axes.edgecolor", "'k'">> >>

Assignments ==
  << <<"xtick.labelsize", "16">>, <<"ytick.labelsize", "16">>,
     <<"axes.facecolor", "'w'">>, <<"lines.linewidth", "4">>,
     <<"axes.grid", "True">>, <<"grid.color", "(0.8, 0.8, 0.8)">>,
     <<"xtick.top", "False">>, <<"xtick.bottom", "True">>,
     <<"ytick.left", "True">>, <<"grid.linestyle", "'--'">>,
     <<"legend.fontsize", "12">>, <<"legend.facecolor", "[1,1,1]">>,
     <<"legend.framealpha", "0.75">>, <<"axes.labelsize", "16">>,
     <<"axes.linewidth", "1">>, <<"axes.edgecolor", "'k'">> >>

NAssign == Len(Assignments)
\* pc = 0: line 1 not yet run; pc = i: statement i is next; pc = Done: module body finished
Done == NAssign + 1

\* keys of the configuration the module never names
OtherKeys == {"ytick.right", "font.size"}
\* the keys of mpl.rcParams the model follows
Keys ==
  {"xtick.labelsize", "ytick.labelsize", "axes.facecolor", "lines.linewidth",
   "axes.grid", "grid.color", "xtick.top", "xtick.bottom", "ytick.left",
   "grid.linestyle", "legend.fontsize", "legend.facecolor",
   "legend.framealpha", "axes.labelsize", "axes.linewidth", "axes.edgecolor"}
    \cup OtherKeys

\* a value some earlier style sheet left in a key
PRIOR == "prior"
\* a second such value: the literal the table holds for the key, when it has one
Preset(k) ==
  IF \E i \in 1..NAssign : Assignments[i][1] = k
  THEN (CHOOSE v \in {Assignments[i][2] : i \in 1..NAssign} :
           \E i \in 1..NAssign : Assignments[i] = <<k, v>>)
  ELSE "preset"
\* the value other code writes after the import
FOREIGN == "foreign"

InitialConfigs(n) ==
  { [k \in Keys |-> IF k \in S THEN Preset(k) ELSE PRIOR] :
      S \in {T \in SUBSET Keys : Cardinality(T) <= n} }

\* positions at which a plot call can read the configuration: the module
\* body holds no plot call, so only before line 1 and after line 18
PlotCallSitesAnywhere == 0..Done
PlotCallSites == {0, Done}

Phase(p) == IF p = 0 THEN "before" ELSE IF p = Done THEN "after" ELSE "partial"

\* rcParams[key] = value
SetItem(rc, kv) == [rc EXCEPT ![kv[1]] = kv[2]]

\* the whole table applied in source order, as a function of the configuration
RECURSIVE ApplyFrom(_, _)
ApplyFrom(rc, i) ==
  IF i > NAssign THEN rc ELSE ApplyFrom(SetItem(rc, Assignments[i]), i + 1)
ApplyTable(rc) == ApplyFrom(rc, 1)

Identity == [i \in 1..NAssign |-> i]
Reverse == [i \in 1..NAssign |-> NAssign + 1 - i]
Swap(a, b) == [i \in 1..NAssign |-> IF i = a THEN b ELSE IF i = b THEN a ELSE i]
Orders == {Identity, Reverse} \cup {Swap(a, b) : a, b \in 1..NAssign}

StyleIdle ==
  /\ rcParams = [k \in Keys |-> PRIOR]
  /\ pc = 0
  /\ before = rcParams
  /\ assigned = {}
  /\ laterWrites = {}
  /\ seen = rcParams
  /\ seenAt = "none"

StyleInit(n) ==
  /\ rcParams \in InitialConfigs(n)
  /\ pc = 0
  /\ before = rcParams
  /\ assigned = {}
  /\ laterWrites = {}
  /\ seen = rcParams
  /\ seenAt = "none"

OrderIdle ==
  /\ order = Identity
  /\ pass = 1
  /\ afterFirst = rcParams

\* line 1: import matplotlib as mpl
Import ==
  /\ pc = 0
  /\ pc' = 1
  /\ before' = rcParams
  /\ UNCHANGED <<rcParams, assigned, laterWrites, seen, seenAt>>
  /\ UNCHANGED <<orderVars, setupVars>>

\* lines 3-18: the next statement of the module body
Assign ==
  /\ pc \in 1..NAssign
  /\ rcParams' = SetItem(rcParams, Assignments[order[pc]])
  /\ assigned' = assigned \cup {Assignments[order[pc]][1]}
  /\ pc' = pc + 1
  /\ UNCHANGED <<before, laterWrites, seen, seenAt>>
  /\ UNCHANGED <<orderVars, setupVars>>

\* a plot call of the importing program reads the configuration
Plot ==
  /\ pc \in PlotCallSites
  /\ seen' = rcParams
  /\ seenAt' = Phase(pc)
  /\ UNCHANGED <<rcParams, pc, before, assigned, laterWrites>>
  /\ UNCHANGED <<orderVars, setupVars>>

\* other code of the importing program writes a key after the import
ForeignWrite ==
  /\ pc = Done
  /\ Cardinality(laterWrites) < MaxForeignWrites
  /\ \E k \in Keys \ laterWrites :
       /\ rcParams' = [rcParams EXCEPT ![k] = FOREIGN]
       /\ laterWrites' = laterWrites \cup {k}
  /\ UNCHANGED <<pc, before, assigned, seen, seenAt>>
  /\ UNCHANGED <<orderVars, setupVars>>

\* the module body is executed a second time (importlib.reload, %run)
Reapply ==
  /\ pc = Done
  /\ pass = 1
  /\ pass' = 2
  /\ afterFirst' = rcParams
  /\ pc' = 1
  /\ UNCHANGED <<rcParams, before, assigned, laterWrites, seen, seenAt, order>>
  /\ UNCHANGED setupVars

(****************************** setup.py ************************************)
Chars == {"#", "CR", "LF"}

RECURSIVE SeqsUpTo(_)
SeqsUpTo(n) ==
  IF n = 0 THEN {<<>>}
  ELSE LET S == SeqsUpTo(n - 1)
       IN S \cup {Append(s, c) : s \in {t \in S : Len(t) = n - 1}, c \in Chars}

SetupIdle ==
  /\ readmeExists = TRUE
  /\ readme = <<>>
  /\ spc = "open"
  /\ err = "none"
  /\ long_description = <<>>
  /\ declared = <<>>

\* text-mode read (line 5 opens with mode "r", newline=None): every CR LF
\* pair and every lone CR of the file comes back as one LF
RECURSIVE TranslateNewlines(_)
TranslateNewlines(s) ==
  IF s = <<>> THEN <<>>
  ELSE IF s[1] = "CR"
       THEN IF Len(s) >= 2 /\ s[2] = "LF"
            THEN <<"LF">> \o TranslateNewlines(SubSeq(s, 3, Len(s)))
            ELSE <<"LF">> \o TranslateNewlines(Tail(s))
       ELSE <<s[1]>> \o TranslateNewlines(Tail(s))

nameEmpty == <<>>
name == <<"s", "i", "m", "_", "a", "n", "d", "_", "s", "c", "a", "t">>

version == <<"0", ".", "0", ".", "1">>

setup_requires ==
  << <<"n", "u", "m", "p", "y">>,
     <<"s", "c", "i", "p", "y">>,
     <<"p", "y", "l", "j">>,
     <<"m", "a", "t", "p", "l", "o", "t", "l", "i", "b">>,
     <<"j", "u", "p", "y", "t", "e", "r">> >>

\* a version specifier slipped into one entry
install_requiresVersioned ==
  << <<"n", "u", "m", "p", "y", ">", "=", "1", ".", "0">>,
     <<"s", "c", "i", "p", "y">>,
     <<"p", "y", "l", "j">>,
     <<"m", "a", "t", "p", "l", "o", "t", "l", "i", "b">>,
     <<"j", "u", "p", "y", "t", "e", "r">> >>

\* one entry of the other list replaced
install_requiresDrift ==
  << <<"n", "u", "m", "p", "y">>,
     <<"s", "c", "i", "p", "y">>,
     <<"p", "y", "l", "j">>,
     <<"m", "a", "t", "p", "l", "o", "t", "l", "i", "b">>,
     <<"i", "p", "y", "t", "h", "o", "n">> >>

install_requires ==
  << <<"n", "u", "m", "p", "y">>,
     <<"s", "c", "i", "p", "y">>,
     <<"p", "y", "l", "j">>,
     <<"m", "a", "t", "p", "l", "o", "t", "l", "i", "b">>,
     <<"j", "u", "p", "y", "t", "e", "r">> >>

\* the keyword arguments of the setup() call of lines 8-29
Metadata(ld) ==
  [ name |-> name,
    version |-> version,
    description |-> "Python package to build appropriate environment for running the sim_and_scat open educational resource",
    author |-> "Andrew R. McCluskey, Adam R. Symington, James Grant, Benjamin J. Morgan, Stephen C. Parker, and Karen J. Edler",
    author_email |-> "a.r.mccluskey@bath.ac.uk, k.edler@bath.ac.uk",
    url |-> "https://arm61.github.io/sim_and_scat",
    setup_requires |-> setup_requires,
    install_requires |-> install_requires,
    long_description |-> ld,
    long_description_content_type |-> "text/markdown" ]

SetupInit ==
  /\ readmeExists \in BOOLEAN
  /\ readme \in (IF readmeExists THEN SeqsUpTo(MaxLen) ELSE {<<>>})
  /\ spc = "open"
  /\ err = "none"
  /\ long_description = <<>>
  /\ declared = <<>>

\* an open() that lets the script go on without the file
OpenReadmeSwallow ==
  /\ spc = "open"
  /\ spc' = "read"
  /\ UNCHANGED <<readmeExists, readme, err, long_description, declared>>
  /\ UNCHANGED <<styleVars, orderVars>>

\* line 5: with open("README.md", "r") as fh
OpenReadme ==
  /\ spc = "open"
  /\ IF readmeExists
     THEN spc' = "read" /\ err' = err
     ELSE spc' = "failed" /\ err' = "FileNotFoundError"
  /\ UNCHANGED <<readmeExists, readme, long_description, declared>>
  /\ UNCHANGED <<styleVars, orderVars>>

\* line 6: long_description = fh.read()
ReadReadme ==
  /\ spc = "read"
  /\ long_description' = TranslateNewlines(readme)
  /\ spc' = "setup"
  /\ UNCHANGED <<readmeExists, readme, err, declared>>
  /\ UNCHANGED <<styleVars, orderVars>>

\* setup() called a second time, the first record edited in between
CallSetupAgain ==
  /\ spc = "setup"
  /\ declared' = IF declared = <<>>
                 THEN <<Metadata(long_description)>>
                 ELSE <<[declared[1] EXCEPT !.version = <<"0", ".", "0", ".", "2">>],
                        Metadata(long_description)>>
  /\ spc' = IF declared = <<>> THEN "setup" ELSE "done"
  /\ UNCHANGED <<readmeExists, readme, err, long_description>>
  /\ UNCHANGED <<styleVars, orderVars>>

\* lines 8-29: setup(name=..., ..., long_description=long_description, ...)
CallSetup ==
  /\ spc = "setup"
  /\ declared' = Append(declared, Metadata(long_description))
  /\ spc' = "done"
  /\ UNCHANGED <<readmeExists, readme, err, long_description>>
  /\ UNCHANGED <<styleVars, orderVars>>

(*************************** specifications *********************************)
\* plot_style.py imported by a program that plots and may write rcParams
Init == StyleInit(MaxPreset) /\ OrderIdle /\ SetupIdle
Next == Import \/ Assign \/ Plot \/ ForeignWrite
Spec == Init /\ [][Next]_vars

\* the statements of plot_style.py executed in another order, and twice
OrderInit ==
  /\ StyleInit(MaxOrderPreset)
  /\ order \in Orders
  /\ pass = 1
  /\ afterFirst = rcParams
  /\ SetupIdle
OrderNext == Import \/ Assign \/ Reapply
OrderSpec == OrderInit /\ [][OrderNext]_vars

\* one run of setup.py
PackInit == StyleIdle /\ OrderIdle /\ SetupInit
PackNext == OpenReadme \/ ReadReadme \/ CallSetup
PackSpec == PackInit /\ [][PackNext]_vars

(******************************* claims *************************************)
\* the key/value pairs the style table is stated to hold
StatedLiterals ==
  { <<"xtick.labelsize", "16">>, <<"ytick.labelsize", "16">>,
    <<"axes.facecolor", "'w'">>, <<"lines.linewidth", "4">>,
    <<"axes.grid", "True">>, <<"grid.color", "(0.8, 0.8, 0.8)">>,
    <<"xtick.top", "False">>, <<"xtick.bottom", "True">>,
    <<"ytick.left", "True">>, <<"grid.linestyle", "'--'">>,
    <<"legend.fontsize", "12">>, <<"legend.facecolor", "[1,1,1]">>,
    <<"legend.framealpha", "0.75">>, <<"axes.labelsize", "16">>,
    <<"axes.linewidth", "1">>, <<"axes.edgecolor", "'k'">> }
StatedKeys == {kv[1] : kv \in StatedLiterals}
TickSides == {"xtick.top", "xtick.bottom", "ytick.left", "ytick.right"}
Range(s) == {s[i] : i \in 1..Len(s)}

\* C1: when the module body has finished (and nothing has written rcParams
\* since), each of the sixteen keys holds the literal of its statement,
\* whatever the configuration was before the import.
C1_LiteralValues ==
  (pc = Done /\ laterWrites = {}) =>
     \A kv \in StatedLiterals : rcParams[kv[1]] = kv[2]
\* a finished run that started with none of the table's values in place
C1_Witness ==
  /\ pc = Done
  /\ laterWrites = {}
  /\ \A k \in StatedKeys : before[k] = PRIOR
  /\ rcParams["lines.linewidth"] = "4"

\* C2: when the module body has finished, it has assigned a visibility to
\* each of the four tick sides, and a value to every other listed option.
C2_AllTickSidesAssigned ==
  pc = Done => (TickSides \subseteq assigned /\ StatedKeys \subseteq assigned)
\* the part of C2 the code does satisfy: three sides and all the other options
C2_ThreeSidesAssigned ==
  pc = Done => (assigned = StatedKeys /\ TickSides \ assigned = {"ytick.right"})

\* C3: a plot call reads the configuration either before the import or after
\* the whole module body, never in between; a read made after the import,
\* with no other code having written the table's keys, sees every value of
\* the table.
C3_PlotSeesWholeTable ==
  /\ seenAt \in {"none", "before", "after"}
  /\ (seenAt = "after" /\ laterWrites \cap StatedKeys = {}) =>
        \A kv \in StatedLiterals : seen[kv[1]] = kv[2]
  /\ (pc = Done /\ laterWrites \cap StatedKeys = {}) =>
        \A kv \in StatedLiterals : rcParams[kv[1]] = kv[2]
\* a plot after the import, other code having written only a key outside the table
C3_Witness ==
  /\ seenAt = "after"
  /\ laterWrites = {"font.size"}
  /\ seen["font.size"] = FOREIGN
  /\ seen["axes.grid"] = "True"
  /\ before["axes.grid"] = PRIOR

\* C9: when the module body has finished (and nothing has written rcParams
\* since), every key outside the sixteen holds the value it held before the
\* import; and no single statement of the module changes such a key.
C9_OtherKeysUnchanged ==
  /\ (pc = Done /\ laterWrites = {}) =>
        \A k \in Keys \ StatedKeys : rcParams[k] = before[k]
  /\ pc \in 1..Done => \A k \in Keys \ (StatedKeys \cup laterWrites) : rcParams[k] = before[k]
\* a finished run whose other keys held two different values beforehand
C9_Witness ==
  /\ pc = Done
  /\ laterWrites = {}
  /\ before["ytick.right"] = "preset"
  /\ rcParams["ytick.right"] = "preset"
  /\ rcParams["font.size"] = PRIOR
  /\ rcParams["xtick.top"] = "False"

\* C10: every statement of the first pass assigns a key no earlier statement
\* assigned; whatever the order of execution, the first pass ends in the
\* configuration the source order produces; a second pass ends in the
\* configuration the first pass ended in.
C10_OrderAndIdempotence ==
  /\ pass = 1 => Cardinality(assigned) = (IF pc = 0 THEN 0 ELSE pc - 1)
  /\ (pc = Done /\ pass = 1) => rcParams = ApplyTable(before)
  /\ (pc = Done /\ pass = 2) => rcParams = afterFirst
\* the table applied twice in reverse order to a configuration it changes
C10_Witness ==
  /\ pc = Done
  /\ pass = 2
  /\ order = Reverse
  /\ rcParams /= before
  /\ rcParams = afterFirst

Letters ==
  {"a", "b", "c", "d", "e", "f", "g", "h", "i", "j", "k", "l", "m", "n", "o", "p", "q", "r", "s", "t", "u", "v", "w", "x", "y", "z",
   "A", "B", "C", "D", "E", "F", "G", "H", "I", "J", "K", "L", "M", "N", "O", "P", "Q", "R", "S", "T", "U", "V", "W", "X", "Y", "Z"}
Digits == {"0", "1", "2", "3", "4", "5", "6", "7", "8", "9"}
IsValidToken(t) ==
  /\ Len(t) > 0
  /\ \A i \in 1..Len(t) : t[i] \in Letters \cup Digits \cup {".", "_", "-"}
  /\ t[1] \in Letters \cup Digits
  /\ t[Len(t)] \in Letters \cup Digits
NoRepeat(l) == \A i, j \in 1..Len(l) : l[i] = l[j] => i = j

\* C4: every record passed to setup() has a non-empty name and a non-empty
\* version: name 'sim_and_scat', version '0.0.1'.
C4_NameAndVersion ==
  \A i \in 1..Len(declared) :
     /\ Len(declared[i].name) > 0
     /\ Len(declared[i].version) > 0
     /\ declared[i].name = <<"s", "i", "m", "_", "a", "n", "d", "_", "s", "c", "a", "t">>
     /\ declared[i].version = <<"0", ".", "0", ".", "1">>
C4_Witness == spc = "done" /\ Len(declared) = 1 /\ Len(declared[1].name) = 12

\* C5: every element of install_requires of a record passed to setup() is a
\* package-name token: non-empty, only letters, digits, '.', '_' and '-',
\* first and last character a letter or a digit.
C5_InstallNamesValid ==
  \A i \in 1..Len(declared) :
     \A j \in 1..Len(declared[i].install_requires) :
        IsValidToken(declared[i].install_requires[j])
C5_Witness ==
  /\ Len(declared) = 1
  /\ Len(declared[1].install_requires) = 5
  /\ IsValidToken(declared[1].install_requires[1])

C7_ContentsUnchanged ==
  /\ (~readmeExists /\ spc /= "open") =>
        (spc = "failed" /\ err = "FileNotFoundError" /\ declared = <<>>)
  /\ readmeExists => err = "none"
  /\ spc = "done" =>
        /\ declared[1].long_description = readme
        /\ declared[1].long_description_content_type = "text/markdown"
\* C7 as amended: the long_description is the file's contents as the
\* text-mode read returns them, every CR LF pair and every lone CR turned
\* into LF; it is the contents unchanged when they hold no CR.
C7_ContentsTranslated ==
  /\ (~readmeExists /\ spc /= "open") =>
        (spc = "failed" /\ err = "FileNotFoundError" /\ declared = <<>>)
  /\ readmeExists => err = "none"
  /\ spc = "done" =>
        /\ declared[1].long_description = TranslateNewlines(readme)
        /\ "CR" \notin Range(declared[1].long_description)
        /\ ("CR" \notin Range(readme) => declared[1].long_description = readme)
        /\ declared[1].long_description_content_type = "text/markdown"
C7_Witness ==
  /\ spc = "done"
  /\ readme = <<"#", "CR", "LF">>
  /\ declared[1].long_description = <<"#", "LF">>

\* C8: in every record passed to setup(), setup_requires and install_requires
\* are the same list, numpy, scipy, pylj, matplotlib, jupyter in this order,
\* and neither repeats a name.
C8_SameLists ==
  \A i \in 1..Len(declared) :
     /\ declared[i].setup_requires = declared[i].install_requires
     /\ declared[i].install_requires =
          << <<"n", "u", "m", "p", "y">>,
            <<"s", "c", "i", "p", "y">>,
            <<"p", "y", "l", "j">>,
            <<"m", "a", "t", "p", "l", "o", "t", "l", "i", "b">>,
            <<"j", "u", "p", "y", "t", "e", "r">> >>
     /\ NoRepeat(declared[i].setup_requires)
     /\ NoRepeat(declared[i].install_requires)
C8_Witness ==
  /\ Len(declared) = 1
  /\ Len(declared[1].setup_requires) = 5
  /\ declared[1].setup_requires[5] = declared[1].install_requires[5]

====
